---- MODULE Spec2Model ----
(***************************************************************************)
(* Sampling of fractional Gaussian noise and fractional Brownian motion by *)
(* circulant embedding (stainless-steel/stochastic).                       *)
(*                                                                         *)
(* The model covers the three snapshots of the sampling code kept in the   *)
(* repository: gaussian.rs (FractionalNoise / FractionalNoisePath and the  *)
(* engine circulant_embedding), gaussian/fractional/noise.rs (Noise /      *)
(* NoisePath) and gaussian/fractional.rs (Motion / Noise with a step).     *)
(*                                                                         *)
(* f64 values are fixed-point integers with SCALE units per 1.0.  The      *)
(* tolerance EPSILON = 1e-10 of the engine lies below that resolution, so  *)
(* "x > -EPSILON" is x >= 0 and "|x| < EPSILON" is x = 0 on the grid.      *)
(***************************************************************************)
EXTENDS Integers, Sequences, FiniteSets, TLC

\* ------------------------------------------------------------------ bounds
\* Largest number of points a sampling call asks for.
MaxCount == 4
\* Largest starting offset of the recorded draw sequence (the seed).
MaxSeed == 2
\* Largest index handed to Process::cov and Process::var.
MaxIndex == 3

\* ------------------------------------------------------- number representation
\* Fixed-point units per 1.0 of an f64.
SCALE == 100

\* The f64 infinity produced by 1.0 / 0 as f64, and the NaN of inf * 0.0.
Inf == 1000000000
NaN == 1000000001

\* Stands for usize::MAX, the result of 0 - 1 on usize when overflow checks
\* are off (the largest integer the checker represents).
UsizeMax == 2147483647

Abs(x) == IF x < 0 THEN -x ELSE x

Max(a, b) == IF a >= b THEN a ELSE b

\* a * b on f64.
FMul(a, b) ==
    IF a = NaN \/ b = NaN THEN NaN
    ELSE IF Abs(a) = Inf \/ Abs(b) = Inf
         THEN IF a = 0 \/ b = 0 THEN NaN
              ELSE IF (a > 0) = (b > 0) THEN Inf ELSE -Inf
         ELSE (a * b) \div SCALE

RECURSIVE SqrtSearch(_, _, _)
SqrtSearch(v, lo, hi) ==
    IF lo >= hi THEN lo
    ELSE LET mid == (lo + hi + 1) \div 2
         IN  IF mid * mid <= v THEN SqrtSearch(v, mid, hi)
                               ELSE SqrtSearch(v, lo, mid - 1)

\* f64::sqrt of a non-negative value.
FSqrt(x) ==
    IF x = Inf THEN Inf ELSE SqrtSearch(x * SCALE, 0, 46340)

RECURSIVE IntPow(_, _)
IntPow(x, k) == IF k = 0 THEN SCALE ELSE FMul(x, IntPow(x, k - 1))

\* f64::powf(x, q4 / 4) for x >= 0: exponents are counted in quarters, which
\* covers H and 2H for every Hurst exponent of HurstSet.
Powf(x, q4) ==
    LET whole == IntPow(x, q4 \div 4)
        half  == IF (q4 % 4) >= 2 THEN FSqrt(x) ELSE SCALE
        quart == IF (q4 % 2) = 1 THEN FSqrt(FSqrt(x)) ELSE SCALE
    IN  FMul(FMul(whole, half), quart)

\* 1.0 / n as f64 for an unsigned n.
Recip(n) == IF n = 0 THEN Inf ELSE SCALE \div n

\* ---------------------------------------------------------------- inputs
\* Hurst exponents in quarters: 0.25, 0.75 (valid) and 1.5 (outside (0, 1)).
HurstSet == {1, 3, 6}

\* hurst > 0.0 && hurst < 1.0
HurstValid(h) == h > 0 /\ h < 4

\* Step sizes: 1.0 and 4.0.
StepSet == {SCALE, 4 * SCALE}

\* Whether the crate is compiled with debug assertions (and overflow checks).
BuildSet == {"debug", "release"}

\* Residue the floating-point transform leaves in the imaginary parts: none, or
\* one unit.  The residue is absolute and grows with the magnitude of the
\* covariances, while the tolerance of the engine is fixed, so it can exceed it.
RoundoffSet == {0, 1}

\* The recorded standard-normal draws replayed by the source, cyclically.
DrawStream == <<100, -50, 150, -125, 75>>

\* The k-th draw (from 0) of the source seeded with sd.
DrawAt(sd, k) == DrawStream[((sd + k) % Len(DrawStream)) + 1]

\* ------------------------------------------------------------ the transform
\* cos(pi r / n) and sin(pi r / n) for r in 0 .. 2n-1, n in 1 .. 6.
CosTable ==
    << <<100, -100>>,
       <<100, 0, -100, 0>>,
       <<100, 50, -50, -100, -50, 50>>,
       <<100, 71, 0, -71, -100, -71, 0, 71>>,
       <<100, 81, 31, -31, -81, -100, -81, -31, 31, 81>>,
       <<100, 87, 50, 0, -50, -87, -100, -87, -50, 0, 50, 87>> >>

SinTable ==
    << <<0, 0>>,
       <<0, 100, 0, -100>>,
       <<0, 87, 87, 0, -87, -87>>,
       <<0, 71, 100, 71, 0, -71, -100, -71>>,
       <<0, 59, 95, 95, 59, 0, -59, -95, -95, -59>>,
       <<0, 50, 87, 100, 87, 50, 0, -50, -87, -100, -87, -50>> >>

\* Chirp with the rotation of order n = m / 2 in place of m.
ChirpOfHalf(mm) == mm \div 2

\* chirp!(m): c64::from_polar(1.0, -2 pi / m), named by its order m.
Chirp(mm) == mm

\* The e-th power of the rotation of order mm, as <<re, im>>.
ChirpPow(mm, e) ==
    LET r == (e % mm) + 1
    IN  <<CosTable[mm \div 2][r], -SinTable[mm \div 2][r]>>

\* c64(1.0, 0.0)
One == <<SCALE, 0>>

RECURSIVE SumTerms(_, _, _, _, _)
\* Sum over j in 0 .. mm-1 of x[j] * w^(j k), one component part in {1, 2}.
SumTerms(x, mm, k, j, part) ==
    IF j = mm THEN 0
    ELSE LET w == ChirpPow(mm, j * k)
             a == x[j + 1][1]
             b == x[j + 1][2]
             t == IF part = 1 THEN a * w[1] - b * w[2] ELSE a * w[2] + b * w[1]
         IN  t + SumTerms(x, mm, k, j + 1, part)

\* czt::forward(data, m, w, a) with w = chirp!(m) and a = 1: entry k is the sum
\* over j of data[j] * w^(j k); ro is the rounding residue of the imaginary part.
Forward(x, mm, ro) ==
    [k \in 1..mm |->
        <<SumTerms(x, mm, k - 1, 0, 1) \div SCALE,
          (SumTerms(x, mm, k - 1, 0, 2) \div SCALE) + ro>>]

\* A real vector handed to the transform.
AsComplex(v) == [k \in 1..Len(v) |-> <<v[k], 0>>]

\* -------------------------------------------------------------- covariance
\* gaussian.rs and noise.rs, Stationary::cov(tau) of the unit-step noise.
UnitCov(h, tau) ==
    LET t     == tau * SCALE
        power == 2 * h
    IN  (Powf(t + SCALE, power) - 2 * Powf(t, power)
            + Powf(Abs(t - SCALE), power)) \div 2

\* fractional.rs, Stationary::cov(delta) of the noise with a step.
StepCov(h, st, delta) ==
    LET d     == delta * SCALE
        power == 2 * h
        var   == Powf(st, power)
    IN  FMul(var \div 2,
             Powf(d + SCALE, power) - 2 * Powf(d, power)
                + Powf(Abs(d - SCALE), power))

\* The process kinds and their Stationary::cov.
KindSet == {"FractionalNoise", "UnitNoise", "StepNoise"}

StationaryCov(kind, h, st, d) ==
    IF kind = "StepNoise" THEN StepCov(h, st, d) ELSE UnitCov(h, d)

\* Stationary::var(): cov(Distance::zero()).
StationaryVar(kind, h, st) == StationaryCov(kind, h, st, 0)

\* a - b on usize: the value, and whether it overflowed.
USub(a, b) ==
    IF a < b THEN [val |-> UsizeMax - (b - a) + 1, overflow |-> TRUE]
             ELSE [val |-> a - b, overflow |-> FALSE]

\* CovDistance with the comparison turned around.
CovDistanceTurned(t, s) == IF t > s THEN USub(s, t) ELSE USub(t, s)

\* The distance expression of Process::cov: if t < s { s - t } else { t - s }.
CovDistance(t, s) == IF t < s THEN USub(s, t) ELSE USub(t, s)

\* Process::cov(t, s) of the noises.
ProcessCov(kind, h, st, t, s) ==
    LET d == CovDistance(t, s)
    IN  [overflow |-> d.overflow,
         val      |-> IF d.overflow THEN NaN ELSE StationaryCov(kind, h, st, d.val)]

\* Process::var(index): cov(index, index).
ProcessVar(kind, h, st, index) == ProcessCov(kind, h, st, index, index)

\* ------------------------------------------------------------------ state
VARIABLES
    build,      \* "debug" or "release": whether debug assertions are compiled in
    hurst,      \* the Hurst exponent of the process, in quarters
    step,       \* the step of fractional.rs Noise and Motion::sample
    seed,       \* where the source starts in DrawStream
    roundoff,   \* the rounding residue of the transform
    op,         \* the operation called
    points,     \* the count the caller asked for
    ncount,     \* the count the noise sampling was asked for
    pc,         \* the position of the call
    fault,      \* why the call aborted
    underflow,  \* whether an unsigned subtraction wrapped
    draws,      \* the number of values taken from the source
    drawLog,    \* for each draw, the buffer entry and part it went to
    calls,      \* the n of each invocation of circulant_embedding
    fwdLog,     \* the calls of czt::forward
    n,          \* circulant_embedding: n
    m,          \* circulant_embedding: m
    data,       \* circulant_embedding: the real buffer
    touched,    \* the indices of data the fill loop has used, in order
    cdata,      \* circulant_embedding: the complex buffer
    eig,        \* the eigenvalue sequence returned by the first transform
    i,          \* the loop index
    out,        \* the sequence returned by circulant_embedding
    scale,      \* the scale factor of the sample-path adapter
    scaleN,     \* the n the scale factor was computed from
    incs,       \* the noise path
    path,       \* the data the operation returns
    position,   \* the cursor of the sample path
    last,       \* what the last next() returned
    yielded,    \* the values next() has returned, in order
    qkind,      \* the process of the last covariance query
    qt, qs,     \* the indices of the last covariance query
    qres        \* the result of the last covariance query

config  == <<build, hurst, step, seed, roundoff>>
request == <<op, points, ncount>>
ghost   == <<underflow, drawLog, calls, fwdLog, touched, eig>>
engine  == <<n, m, data, cdata, i, out>>
adapter == <<scale, scaleN, incs, path>>
cursor  == <<position, last, yielded>>
query   == <<qkind, qt, qs, qres>>

vars == <<config, request, pc, fault, draws, ghost, engine, adapter, cursor, query>>

\* The operations that sample a path, and those that return an iterator.
SampleOps == {"Motion", "StepNoise", "NoisePath", "FractionalNoisePath"}
IteratorOps == {"NoisePath", "FractionalNoisePath"}

\* The process whose covariance an operation hands to the engine.
KindOf(o) ==
    CASE o = "FractionalNoisePath" -> "FractionalNoise"
      [] o = "NoisePath"           -> "UnitNoise"
      [] OTHER                     -> "StepNoise"

\* The state after construction of the process: Noise::new, Motion::new and
\* FractionalNoise::new reject a Hurst exponent outside (0, 1) only when debug
\* assertions are compiled in.
Init ==
    /\ build \in BuildSet
    /\ hurst \in HurstSet
    /\ build = "debug" => HurstValid(hurst)
    /\ step \in StepSet
    /\ seed \in 0..MaxSeed
    /\ roundoff \in RoundoffSet
    /\ op = "none" /\ points = 0 /\ ncount = 0
    /\ pc = "idle" /\ fault = "none" /\ underflow = FALSE
    /\ draws = 0 /\ drawLog = <<>> /\ calls = <<>> /\ fwdLog = <<>>
    /\ n = 0 /\ m = 0 /\ data = <<>> /\ touched = <<>>
    /\ cdata = <<>> /\ eig = <<>> /\ i = 0 /\ out = <<>>
    /\ scale = SCALE /\ scaleN = 0 /\ incs = <<>> /\ path = <<>>
    /\ position = 0 /\ last = "unread" /\ yielded = <<>>
    /\ qkind = "none" /\ qt = 0 /\ qs = 0 /\ qres = [overflow |-> FALSE, val |-> 0]

\* gaussian.sample(source): the next value of the source.
NextDraw == DrawAt(seed, draws)

Min(a, b) == IF a <= b THEN a ELSE b

\* iter().take(k) of a vector.
Take(s, k) == SubSeq(s, 1, Min(k, Len(s)))

\* ------------------------------------------------- the sampling operations
\* What a sampling operation does before any engine step: it returns a path
\* ("final"), returns a noise path after at most one direct draw ("ret"),
\* enters circulant_embedding ("engine"), or aborts ("abort").
Final(vec) ==
    [kind |-> "final", vec |-> vec, used |-> 0, n |-> 0, scale |-> SCALE,
     scaleN |-> 0, overflow |-> FALSE, fault |-> "none"]

Returned(vec, used) ==
    [kind |-> "ret", vec |-> vec, used |-> used, n |-> 0, scale |-> SCALE,
     scaleN |-> 0, overflow |-> FALSE, fault |-> "none"]

ToEngine(nn, sc, scn, ov) ==
    [kind |-> "engine", vec |-> <<>>, used |-> 0, n |-> nn, scale |-> sc,
     scaleN |-> scn, overflow |-> ov, fault |-> "none"]

Aborted(why) ==
    [kind |-> "abort", vec |-> <<>>, used |-> 0, n |-> 0, scale |-> SCALE,
     scaleN |-> 0, overflow |-> FALSE, fault |-> why]

\* Gaussian::new(0.0, sd).sample(source): sd times the next standard draw.
GaussianSample(sd) == FMul(sd, NextDraw)

\* fractional.rs, Noise::sample(cnt, source).
StepNoiseSample(cnt) ==
    IF cnt = 0 THEN Returned(<<>>, 0)
    ELSE IF cnt = 1
         THEN Returned(
                <<GaussianSample(FSqrt(StationaryVar("StepNoise", hurst, step)))>>, 1)
         ELSE ToEngine(cnt - 1, SCALE, 0, FALSE)

\* noise.rs, NoisePath::new(noise, cnt, generator).
NoisePathNew(cnt) ==
    IF cnt = 0 THEN Returned(<<>>, 0)
    ELSE IF cnt = 1 THEN Returned(<<GaussianSample(SCALE)>>, 1)
         ELSE ToEngine(cnt - 1, Powf(Recip(cnt - 1), hurst), cnt - 1, FALSE)

\* gaussian.rs, FractionalNoisePath::new(noise, size, generator): the scale is
\* computed from size - 1 and the engine is handed size, whatever size is.
FractionalNoisePathNew(size) ==
    LET sub == USub(size, 1)
    IN  IF sub.overflow /\ build = "debug" THEN Aborted("overflow")
        ELSE ToEngine(size, Powf(Recip(sub.val), hurst), sub.val, sub.overflow)

\* fractional.rs, Motion::sample(pts, step, source), up to the return of the
\* inner Noise::sample.
MotionSampleHead(pts) ==
    IF pts = 0 THEN Final(<<>>)
    ELSE IF pts = 1 THEN Final(<<0>>)
         ELSE StepNoiseSample(pts - 1)

\* The count Motion::sample hands to Noise::sample.
MotionNoiseCount(pts) == IF pts >= 2 THEN pts - 1 ELSE 0

\* SumStart with the loop starting one position late.
SumStartLate == 2 + 1

\* Where the sum loop of Motion::sample starts: for i in 2..points.
SumStart == 2

\* The effect of the head of an operation o called with pts points, its noise
\* sampling being asked for cnt values.
Apply(o, pts, cnt, r) ==
    /\ pc = "idle"
    /\ op' = o /\ points' = pts /\ ncount' = cnt
    /\ underflow' = r.overflow /\ fault' = r.fault
    /\ draws' = draws + r.used
    /\ drawLog' = IF r.used = 1
                  THEN Append(drawLog, [entry |-> 0, part |-> "direct", value |-> NextDraw])
                  ELSE drawLog
    /\ n' = r.n
    /\ calls' = IF r.kind = "engine" THEN Append(calls, r.n) ELSE calls
    /\ scale' = r.scale /\ scaleN' = r.scaleN
    /\ incs' = r.vec
    /\ path' = CASE r.kind = "final"  -> r.vec
                 [] r.kind = "ret"    -> IF o = "Motion" THEN <<0>> \o r.vec ELSE r.vec
                 [] r.kind = "engine" -> IF o = "Motion" THEN <<0>> ELSE <<>>
                 [] OTHER             -> <<>>
    /\ pc' = CASE r.kind = "final"  -> "done"
               [] r.kind = "ret"    -> IF o = "Motion" THEN "cumsum" ELSE "done"
               [] r.kind = "engine" -> "alloc"
               [] OTHER             -> "abort"
    /\ i' = IF r.kind = "ret" /\ o = "Motion" THEN SumStart ELSE 0
    /\ UNCHANGED <<config, fwdLog, touched, eig, m, data, cdata, out, cursor, query>>

MotionSample ==
    \E pts \in 0..MaxCount :
        Apply("Motion", pts, MotionNoiseCount(pts), MotionSampleHead(pts))

NoiseSample ==
    \E cnt \in 0..MaxCount : Apply("StepNoise", cnt, cnt, StepNoiseSample(cnt))

NoisePathSample ==
    \E cnt \in 0..MaxCount : Apply("NoisePath", cnt, cnt, NoisePathNew(cnt))

FractionalNoiseSample ==
    \E size \in 0..MaxCount :
        Apply("FractionalNoisePath", size, size, FractionalNoisePathNew(size))

\* ------------------------------------------------------ circulant_embedding
\* let m = (1 + n) + (1 + n) - 2;
EmbeddingLength(nn) == (1 + nn) + (1 + nn) - 2

\* Mirror one position low: m - i - 1.
MirrorLow(mm, k) == USub(mm, k + 1)

\* The mirror index m - i of the fill loop.
Mirror(mm, k) == USub(mm, k)

\* The covariance the engine reads at distance d.
EngineCov(d) == StationaryCov(KindOf(op), hurst, step, d)

\* let mut data = vec![0.0; m]; data[0] = Stationary::cov(process, 0);
EngineAlloc ==
    /\ pc = "alloc"
    /\ m' = EmbeddingLength(n)
    /\ touched' = <<0>>
    /\ IF m' = 0
       THEN /\ data' = <<>>
            /\ pc' = "abort" /\ fault' = "index"
            /\ i' = i
       ELSE /\ data' = [[k \in 1..m' |-> 0] EXCEPT ![1] = EngineCov(0)]
            /\ pc' = "fill" /\ fault' = fault
            /\ i' = 1
    /\ UNCHANGED <<config, request, draws, underflow, drawLog, calls, fwdLog, eig,
                   n, cdata, out, adapter, cursor, query>>

\* One iteration of for i in 1..(n + 1) { data[i] = cov(i); data[m - i] = data[i]; }
\* or its exit.
FillStep ==
    /\ pc = "fill"
    /\ IF i < n + 1
       THEN LET back == Mirror(m, i)
            IN  IF i >= m
                THEN /\ pc' = "abort" /\ fault' = "index"
                     /\ touched' = Append(touched, i)
                     /\ UNCHANGED <<data, i, underflow>>
                ELSE IF back.overflow /\ build = "debug"
                THEN /\ pc' = "abort" /\ fault' = "overflow"
                     /\ touched' = Append(touched, i)
                     /\ data' = [data EXCEPT ![i + 1] = EngineCov(i)]
                     /\ UNCHANGED <<i, underflow>>
                ELSE IF back.val >= m
                THEN /\ pc' = "abort" /\ fault' = "index"
                     /\ touched' = touched \o <<i, back.val>>
                     /\ data' = [data EXCEPT ![i + 1] = EngineCov(i)]
                     /\ underflow' = (underflow \/ back.overflow)
                     /\ i' = i
                ELSE /\ data' = [[data EXCEPT ![i + 1] = EngineCov(i)]
                                    EXCEPT ![back.val + 1] = EngineCov(i)]
                     /\ touched' = touched \o <<i, back.val>>
                     /\ i' = i + 1
                     /\ UNCHANGED <<pc, fault, underflow>>
       ELSE /\ pc' = "fwd1"
            /\ UNCHANGED <<data, touched, i, fault, underflow>>
    /\ UNCHANGED <<config, request, draws, drawLog, calls, fwdLog, eig,
                   n, m, cdata, out, adapter, cursor, query>>

\* One call of czt::forward, as the engine makes it.
ForwardCall(len, rot, a) == [len |-> len, rot |-> rot, scale |-> a, draws |-> draws]

\* let mut data = czt::forward(&data, m, chirp!(m), c64(1.0, 0.0));
ForwardFirst ==
    /\ pc = "fwd1"
    /\ cdata' = Forward(AsComplex(data), m, roundoff)
    /\ eig' = cdata'
    /\ fwdLog' = Append(fwdLog, ForwardCall(m, Chirp(m), One))
    /\ i' = 0
    /\ pc' = "rand"
    /\ UNCHANGED <<config, request, fault, draws, underflow, drawLog, calls, touched,
                   n, m, data, out, adapter, cursor, query>>

\* cfg!(debug_assertions)
SpectrumChecked(b) == b = "debug"

\* SpectrumOk without the check of the imaginary part.
SpectrumOkRealOnly(z) == z[1] >= 0

\* data[i].re() > -EPSILON and data[i].im().abs() < EPSILON.
SpectrumOk(z) == z[1] >= 0 /\ z[2] = 0

\* (data[i].re().max(0.0) * scale).sqrt() with scale = 1.0 / (2 * n) as f64.
Sigma(z, nn) == FSqrt(FMul(Max(z[1], 0), Recip(2 * nn)))

\* Randomized with the two draws exchanged.
RandomizedSwapped(sigma, g1, g2) == <<FMul(sigma, g2), FMul(sigma, g1)>>

\* c64(sigma * gaussian(), sigma * gaussian()) with g1 drawn before g2.
Randomized(sigma, g1, g2) == <<FMul(sigma, g1), FMul(sigma, g2)>>

\* One iteration of the loop for i in 0..m over the eigenvalues, or its exit.
RandStep ==
    /\ pc = "rand"
    /\ IF i < m
       THEN IF SpectrumChecked(build) /\ ~SpectrumOk(cdata[i + 1])
            THEN /\ pc' = "abort" /\ fault' = "spectrum"
                 /\ UNCHANGED <<cdata, draws, drawLog, i>>
            ELSE /\ cdata' = [cdata EXCEPT ![i + 1] =
                                Randomized(Sigma(cdata[i + 1], n),
                                           DrawAt(seed, draws), DrawAt(seed, draws + 1))]
                 /\ draws' = draws + 2
                 /\ drawLog' = drawLog \o
                        << [entry |-> i, part |-> "re", value |-> DrawAt(seed, draws)],
                           [entry |-> i, part |-> "im", value |-> DrawAt(seed, draws + 1)] >>
                 /\ i' = i + 1
                 /\ UNCHANGED <<pc, fault>>
       ELSE /\ pc' = "fwd2"
            /\ UNCHANGED <<cdata, draws, drawLog, i, fault>>
    /\ UNCHANGED <<config, request, underflow, calls, fwdLog, touched, eig,
                   n, m, data, out, adapter, cursor, query>>

\* czt::forward(&mut data, m, chirp!(m), c64(1.0, 0.0)), the value returned.
ForwardSecond ==
    /\ pc = "fwd2"
    /\ out' = Forward(cdata, m, roundoff)
    /\ fwdLog' = Append(fwdLog, ForwardCall(m, Chirp(m), One))
    /\ pc' = "collect"
    /\ UNCHANGED <<config, request, fault, draws, underflow, drawLog, calls, touched,
                   eig, n, m, data, cdata, i, adapter, cursor, query>>

\* ------------------------------------------------------ the path adapters
\* The value an adapter makes of one entry of the engine's output: noise.rs and
\* gaussian.rs map scale * point.re(), fractional.rs maps point.re.
AdapterValue(o, sc, z) ==
    IF o \in IteratorOps THEN FMul(sc, z[1]) ELSE z[1]

\* Collected with take(cnt - 1): one entry short.
CollectedShort(o, cnt, sc, output) ==
    LET taken == Take(output, cnt - 1)
    IN  [k \in 1..Len(taken) |-> AdapterValue(o, sc, taken[k])]

\* data.iter().take(cnt).map(...).collect()
Collected(o, cnt, sc, output) ==
    LET taken == Take(output, cnt)
    IN  [k \in 1..Len(taken) |-> AdapterValue(o, sc, taken[k])]

\* The adapter after the engine has returned; Motion::sample extends its
\* vec![0.0] by the noise path.
Collect ==
    /\ pc = "collect"
    /\ incs' = Collected(op, ncount, scale, out)
    /\ IF op = "Motion"
       THEN /\ path' = path \o incs'
            /\ pc' = "cumsum"
            /\ i' = SumStart
       ELSE /\ path' = incs'
            /\ pc' = "done"
            /\ i' = i
    /\ UNCHANGED <<config, request, fault, draws, ghost, n, m, data, cdata, out,
                   scale, scaleN, cursor, query>>

\* One iteration of for i in 2..points { data[i] += data[i - 1]; } or its exit.
CumsumStep ==
    /\ pc = "cumsum"
    /\ IF i < points
       THEN IF i >= Len(path)
            THEN /\ pc' = "abort" /\ fault' = "index"
                 /\ UNCHANGED <<path, i>>
            ELSE /\ path' = [path EXCEPT ![i + 1] = path[i + 1] + path[i]]
                 /\ i' = i + 1
                 /\ UNCHANGED <<pc, fault>>
       ELSE /\ pc' = "done"
            /\ UNCHANGED <<path, i, fault>>
    /\ UNCHANGED <<config, request, draws, ghost, n, m, data, cdata, out,
                   scale, scaleN, incs, cursor, query>>

\* Advance skipping one value.
AdvanceTwice(pos) == pos + 2

\* The cursor after a successful next().
Advance(pos) == pos + 1

\* Iterator::next of NoisePath and FractionalNoisePath.
PathNext ==
    /\ pc = "done"
    /\ op \in IteratorOps
    /\ IF position >= Len(path)
       THEN /\ last' = "none"
            /\ UNCHANGED <<position, yielded>>
       ELSE /\ last' = "some"
            /\ yielded' = Append(yielded, path[position + 1])
            /\ position' = Advance(position)
    /\ UNCHANGED <<config, request, pc, fault, draws, ghost, engine, adapter, query>>

\* ------------------------------------------------------ covariance queries
\* The effect of a covariance query whose result is r.
Answer(o, kind, t, s, r) ==
    /\ pc = "idle"
    /\ op' = o
    /\ qkind' = kind /\ qt' = t /\ qs' = s /\ qres' = r
    /\ underflow' = r.overflow
    /\ IF r.overflow /\ build = "debug"
       THEN pc' = "abort" /\ fault' = "overflow"
       ELSE pc' = "done" /\ fault' = fault
    /\ UNCHANGED <<config, points, ncount, draws, drawLog, calls, fwdLog, touched, eig,
                   engine, adapter, cursor>>

\* Process::cov(t, s).
CovQuery ==
    \E kind \in KindSet, t \in 0..MaxIndex, s \in 0..MaxIndex :
        Answer("Cov", kind, t, s, ProcessCov(kind, hurst, step, t, s))

\* Process::var(index).
VarQuery ==
    \E kind \in KindSet, index \in 0..MaxIndex :
        Answer("Var", kind, index, index, ProcessVar(kind, hurst, step, index))

\* ------------------------------------------------------------ specification
Next ==
    \/ MotionSample
    \/ NoiseSample
    \/ NoisePathSample
    \/ FractionalNoiseSample
    \/ EngineAlloc
    \/ FillStep
    \/ ForwardFirst
    \/ RandStep
    \/ ForwardSecond
    \/ Collect
    \/ CumsumStep
    \/ PathNext
    \/ CovQuery
    \/ VarQuery

Spec == Init /\ [][Next]_vars

\* ------------------------------------------------------------------ claims
\* The positions of a call after circulant_embedding has returned.
AfterEngine == {"collect", "cumsum", "done"}

\* The noise sampling operations of fractional.rs and noise.rs.
NoiseOps == {"StepNoise", "NoisePath"}

\* C1: noise sampling (Noise::sample of fractional.rs, NoisePath::new of
\* noise.rs) that returns, returns exactly count values; for count >= 2 these
\* are made of the first count entries of the engine's output, whose length is
\* m = 2 * (count - 1) and never less than count.
C1_NoisePathLength ==
    (pc = "done" /\ op \in NoiseOps) =>
        /\ Len(path) = points
        /\ points >= 2 =>
            /\ Len(out) = 2 * (points - 1)
            /\ Len(out) >= points
            /\ \A k \in 1..points :
                  path[k] = IF op = "NoisePath" THEN FMul(scale, out[k][1]) ELSE out[k][1]

C1_Witness ==
    /\ pc = "done" /\ op \in NoiseOps
    /\ points = 3 /\ Len(path) = 3 /\ Len(out) = 4

RECURSIVE SumFirst(_, _)
\* The sum of the first k values of v.
SumFirst(v, k) == IF k = 0 THEN 0 ELSE SumFirst(v, k - 1) + v[k]

\* C2: Motion::sample(points, ...) that returns, returns exactly points values;
\* position 0 holds 0.0 and position i (1 <= i < points) holds the sum of the
\* first i increments of the noise path of length points - 1.
C2_MotionIsRunningSum ==
    (pc = "done" /\ op = "Motion") =>
        /\ Len(path) = points
        /\ points >= 1 => path[1] = 0
        /\ points >= 2 => Len(incs) = points - 1
        /\ \A k \in 1..(points - 1) : path[k + 1] = SumFirst(incs, k)

C2_Witness ==
    /\ pc = "done" /\ op = "Motion" /\ points = 4
    /\ path[2] = incs[1]
    /\ path[4] = incs[1] + incs[2] + incs[3]
    /\ incs[2] # 0 /\ incs[3] # 0

\* The buffer the fill loop leaves for a covariance and n: cov(0), cov(1), ...,
\* cov(n), cov(n - 1), ..., cov(1).
ReferenceBuffer(kind, h, st, nn) ==
    [k \in 1..(2 * nn) |->
        StationaryCov(kind, h, st, IF k - 1 <= nn THEN k - 1 ELSE 2 * nn - (k - 1))]

\* C3: a call of circulant_embedding with n >= 1 that returns has consumed
\* exactly 4n draws, two per entry, the draw numbered 2i into the real part of
\* entry i and the draw numbered 2i + 1 into its imaginary part, so that its
\* output is a function of n, the covariance and the ordered draws: the buffer
\* is determined by the covariance and n, the eigenvalues by the buffer, the
\* randomized buffer by the eigenvalues and the draws, the output by that.
C3_DrawOrder ==
    /\ (pc = "rand" /\ fault = "none") => (draws = 2 * i /\ Len(drawLog) = 2 * i)
    /\ (pc \in AfterEngine /\ calls # <<>> /\ n >= 1) =>
        /\ draws = 4 * n
        /\ Len(drawLog) = 4 * n
        /\ \A k \in 0..(4 * n - 1) :
              /\ drawLog[k + 1].entry = k \div 2
              /\ drawLog[k + 1].part = (IF k % 2 = 0 THEN "re" ELSE "im")
              /\ drawLog[k + 1].value = DrawAt(seed, k)
        /\ \A e \in 0..(m - 1) :
              LET sigma == FSqrt(FMul(Max(eig[e + 1][1], 0), Recip(2 * n)))
              IN  cdata[e + 1] = <<FMul(sigma, DrawAt(seed, 2 * e)),
                                   FMul(sigma, DrawAt(seed, 2 * e + 1))>>
        /\ data = ReferenceBuffer(KindOf(op), hurst, step, n)
        /\ eig = Forward(AsComplex(data), 2 * n, roundoff)
        /\ Len(out) = 2 * n
        /\ out = Forward(cdata, 2 * n, roundoff)

C3_Witness ==
    /\ pc = "done" /\ op = "NoisePath" /\ n = 2 /\ draws = 8
    /\ cdata[2][1] # cdata[2][2]
    /\ cdata[2][1] # 0

\* C4: every sampling operation asked for 0 values returns an empty path: it
\* does not abort, no index is out of range, no unsigned subtraction
\* underflows and no draw is consumed.
C4_ZeroCountIsEmpty ==
    (op \in SampleOps /\ points = 0 /\ pc # "idle") =>
        /\ pc = "done"
        /\ fault = "none"
        /\ ~underflow
        /\ path = <<>>
        /\ draws = 0

\* C5: noise sampling asked for 1 value consumes exactly one draw and makes no
\* call of the engine or of the transform, and no sampling operation invokes
\* circulant_embedding with n = 0.
C5_NoEngineForOnePoint ==
    /\ (op \in SampleOps \ {"Motion"} /\ points = 1 /\ pc # "idle") =>
            (pc = "done" /\ draws = 1 /\ calls = <<>> /\ fwdLog = <<>>)
    /\ (op = "Motion" /\ points = 2 /\ pc # "idle") => (calls = <<>> /\ draws = 1)
    /\ \A k \in 1..Len(calls) : calls[k] # 0

\* The number of eigenvalues the loop over the spectrum has got past.
Passed ==
    IF pc = "rand" \/ (pc = "abort" /\ fault = "spectrum") THEN i
    ELSE IF pc \in {"fwd2"} \cup AfterEngine /\ calls # <<>> THEN Len(eig)
    ELSE 0

\* An eigenvalue within the tolerance: real part not below -1e-10, imaginary
\* part within 1e-10 of zero.
WithinTolerance(z) == z[1] >= 0 /\ z[2] = 0

\* C6, as claimed: in any build the engine never gets past an eigenvalue
\* outside the tolerance, it aborts there.
C6_FatalInAnyBuild ==
    \A k \in 1..Passed : WithinTolerance(eig[k])

\* C6, amended: with debug assertions compiled in, the engine aborts at the
\* first eigenvalue outside the tolerance and only there; without them it
\* never aborts on the spectrum, and an eigenvalue with a negative real part
\* is clamped to zero, giving a zero entry of the randomized buffer.
C6_FatalInDebugOnly ==
    /\ build = "debug" =>
        /\ \A k \in 1..Passed : WithinTolerance(eig[k])
        /\ (pc = "abort" /\ fault = "spectrum") => ~WithinTolerance(eig[i + 1])
    /\ build = "release" =>
        /\ fault # "spectrum"
        /\ \A k \in 1..Passed : eig[k][1] < 0 => cdata[k] = <<0, 0>>

C6_Witness ==
    /\ build = "debug" /\ pc = "abort" /\ fault = "spectrum"
    /\ eig[i + 1][1] >= 0 /\ eig[i + 1][2] # 0

\* C7: a sample path is a one-shot forward sequence: next() returns data[0],
\* data[1], ... in order, a successful call moves the cursor by exactly one,
\* the cursor never exceeds the length, and once next() has returned no value
\* every later call returns no value and leaves cursor and data as they are.
C7_OneShotForward ==
    /\ [](/\ position <= Len(path)
          /\ yielded = SubSeq(path, 1, position)
          /\ last = "none" => position = Len(path))
    /\ [][/\ position' # position =>
                /\ position' = position + 1
                /\ last' = "some"
                /\ yielded' = Append(yielded, path[position + 1])
          /\ last = "none" =>
                /\ last' = "none"
                /\ position' = position
                /\ path' = path
                /\ yielded' = yielded]_vars

C7_Witness ==
    /\ op = "NoisePath" /\ pc = "done" /\ last = "none"
    /\ Len(path) = 3 /\ position = 3 /\ yielded = path

\* C8: for the noises Process::cov(t, s) is Stationary::cov(|t - s|), computed
\* without unsigned underflow, so cov(t, s) = cov(s, t), and Process::var(i)
\* is Stationary::var() = cov(0) for every index i.
C8_CovDependsOnDistance ==
    /\ (op = "Cov" /\ pc # "idle") =>
        /\ pc = "done" /\ ~underflow /\ ~qres.overflow
        /\ qres.val = StationaryCov(qkind, hurst, step, Abs(qt - qs))
        /\ qres.val = ProcessCov(qkind, hurst, step, qs, qt).val
    /\ (op = "Var" /\ pc # "idle") =>
        /\ pc = "done" /\ ~underflow /\ ~qres.overflow
        /\ qres.val = StationaryVar(qkind, hurst, step)
        /\ qres.val = StationaryCov(qkind, hurst, step, 0)

C8_Witness ==
    /\ op = "Cov" /\ pc = "done" /\ qt < qs
    /\ qres.val = StationaryCov(qkind, hurst, step, qs - qt)
    /\ qres.val # StationaryVar(qkind, hurst, step)

\* C9: for count >= 2 every sample-path adapter invokes the engine with
\* n = count - 1 (m = 2 * (count - 1)), output position k is made of the real
\* part of entry k of the engine's output, and the n of the scale factor
\* (1 / n)^H is the n handed to the engine.
C9_EngineGetsCountMinusOne ==
    (op \in SampleOps /\ ncount >= 2 /\ pc \in AfterEngine \ {"collect"}) =>
        /\ calls = <<ncount - 1>>
        /\ Len(out) = 2 * (ncount - 1)
        /\ \A k \in 1..ncount :
              incs[k] = IF op \in IteratorOps THEN FMul(scale, out[k][1]) ELSE out[k][1]
        /\ op \in IteratorOps => scaleN = calls[1]

\* C10: for n >= 1, when the fill loop has finished the buffer of length
\* m = 2n holds cov(0) at 0 and cov(i) at i and at m - i for 1 <= i <= n; every
\* index 0 .. m-1 has been written and every index the loop used is in 0 .. m-1.
C10_BufferIsMirrored ==
    /\ (pc = "fill" /\ n >= 1) =>
        /\ \A k \in 1..Len(touched) : touched[k] \in 0..(m - 1)
        /\ \A k \in 1..(i - 1) :
              data[k + 1] = EngineCov(k) /\ data[m - k + 1] = EngineCov(k)
    /\ (pc = "fwd1" /\ n >= 1) =>
        /\ m = 2 * n /\ Len(data) = m
        /\ data[1] = EngineCov(0)
        /\ \A k \in 1..n :
              data[k + 1] = EngineCov(k) /\ data[m - k + 1] = data[k + 1]
        /\ {touched[k] : k \in 1..Len(touched)} = 0..(m - 1)
    /\ (calls # <<>> /\ calls[1] >= 1) => fault # "index"

C10_Witness ==
    /\ pc = "fwd1" /\ n = 3 /\ Len(data) = 6
    /\ data[2] = data[6] /\ data[3] = data[5]
    /\ data[2] # data[3]

\* C11: each invocation of circulant_embedding that returns has called the
\* transform exactly twice, both times with length m = 2n, the rotation of
\* order m (angle -2 pi / m) and scale 1; the first call is made before any
\* draw is consumed and the second after all 4n draws of the invocation.
C11_TwoTransformCalls ==
    /\ Len(fwdLog) <= 2
    /\ calls = <<>> => fwdLog = <<>>
    /\ pc \in {"alloc", "fill", "fwd1"} => (fwdLog = <<>> /\ draws = 0)
    /\ pc \in {"rand", "fwd2"} =>
        /\ Len(fwdLog) = 1
        /\ fwdLog[1].draws = 0
    /\ \A k \in 1..Len(fwdLog) :
        /\ fwdLog[k].len = 2 * n
        /\ fwdLog[k].rot = 2 * n
        /\ fwdLog[k].scale = <<SCALE, 0>>
    /\ (pc \in AfterEngine /\ calls # <<>>) =>
        /\ Len(calls) = 1
        /\ Len(fwdLog) = 2
        /\ fwdLog[1].draws = 0
        /\ fwdLog[2].draws = 4 * n
        /\ draws = 4 * n

C11_Witness ==
    /\ pc = "done" /\ n = 3 /\ Len(fwdLog) = 2
    /\ fwdLog[1].len = 6 /\ fwdLog[2].len = 6
    /\ fwdLog[1].draws = 0 /\ fwdLog[2].draws = 12

====
